---------------------------- MODULE Spec2Model ----------------------------
(***************************************************************************)
(* Model of cloudinit/net/network_manager.py: the NetworkManager keyfile   *)
(* renderer.  NMConnection is a configparser document (ordered sections of *)
(* ordered options, all values strings); Renderer is the registry of       *)
(* connections and the two-pass render_network_state.                      *)
(***************************************************************************)
EXTENDS Integers, Sequences, FiniteSets, TLC

VARIABLES
    conn,           \* a stand-alone NMConnection driven one method call at a time
    added,          \* how many address<n> / route<n> values each family of conn was given
    lastOp,         \* the method call that produced conn
    ops,            \* number of method calls made on conn
    connections,    \* Renderer.connections: ordered dict, connection key -> NMConnection
    network_state,  \* the NetworkState handed to render_network_state
    pc,             \* position inside render_network_state
    idx,            \* index of the next interface / connection of the running loop
    written,        \* util.write_file calls of the running render, in order
    prev,           \* the previous render of this Renderer: its input and how it ended
    raised,         \* the exception that left render_network_state, or None
    log,            \* LOG.warning calls of the running render (interface names)
    locals,         \* the locals the last render_interface call ended with
    renders         \* number of render_network_state calls started on this Renderer

vars == <<conn, added, lastOp, ops, connections, network_state, pc, idx,
          written, prev, raised, log, locals, renders>>

builderVars == <<conn, added, lastOp, ops>>
renderVars ==
    <<connections, network_state, pc, idx, written, prev, raised, log, locals, renders>>

(***************************************************************************)
(* Bounds of the model.                                                    *)
(***************************************************************************)
MaxOps == 4
MaxSubnets == 2
MaxIfaces == 3
MaxRenders == 2

\* Python's None, for values that are otherwise strings.
None == "<None>"

Families == <<"ipv4", "ipv6">>

(***************************************************************************)
(* configparser.ConfigParser with optionxform = str: a sequence of         *)
(* sections, each a sequence of options, both in first-write order.        *)
(***************************************************************************)
has_section(c, s) == \E i \in 1..Len(c) : c[i].name = s

SecIdx(c, s) == CHOOSE i \in 1..Len(c) : c[i].name = s

Options(c, s) == c[SecIdx(c, s)].opts

has_option(c, s, o) ==
    /\ has_section(c, s)
    /\ \E j \in 1..Len(Options(c, s)) : Options(c, s)[j].k = o

\* self.config[s][o]
GetOption(c, s, o) ==
    LET os == Options(c, s)
    IN  os[CHOOSE j \in 1..Len(os) : os[j].k = o].v

\* self.config[s] = {}: a new empty section, or an existing one cleared in place
SetSection(c, s) ==
    IF has_section(c, s)
    THEN [c EXCEPT ![SecIdx(c, s)].opts = <<>>]
    ELSE Append(c, [name |-> s, opts |-> <<>>])

\* self.config[s][o] = v: overwrite in place, or append to the section
SetOption(c, s, o, v) ==
    LET i  == SecIdx(c, s)
        os == c[i].opts
    IN  IF \E j \in 1..Len(os) : os[j].k = o
        THEN [c EXCEPT ![i].opts[CHOOSE j \in 1..Len(os) : os[j].k = o].v = v]
        ELSE [c EXCEPT ![i].opts = Append(os, [k |-> o, v |-> v])]

(***************************************************************************)
(* NMConnection                                                            *)
(***************************************************************************)
\* uuid.uuid5(CI_NM_UUID, con_id): a name-based hash, injective on the names used
uuid5(con_id) == "uuid5(" \o con_id \o ")"

NMConnection(con_id) ==
    << [name |-> "connection",
        opts |-> << [k |-> "id", v |-> "cloud-init " \o con_id],
                    [k |-> "uuid", v |-> uuid5(con_id)],
                    [k |-> "autoconnect-priority", v |-> "120"] >>],
       [name |-> "user",
        opts |-> << [k |-> "org.freedesktop.NetworkManager.origin",
                     v |-> "cloud-init"] >>] >>

\* one statement after another: Result({ F(x) : x \in {v} }) is F on the value v the
\* statements before it left
Result(S) == CHOOSE r \in S : TRUE

\* if not self.config.has_section(section): self.config[section] = {}
EnsureSection(c, section) ==
    IF has_section(c, section) THEN c ELSE SetSection(c, section)

SetIfAbsent(c, section, option, value) ==
    IF has_option(c, section, option) THEN c ELSE SetOption(c, section, option, value)

_set_default(c, section, option, value) ==
    SetIfAbsent(EnsureSection(c, section), section, option, value)

_config_option_is_set(c, section, option) ==
    has_section(c, section) /\ has_option(c, section, option)

_get_config_option(c, section, option) ==
    IF _config_option_is_set(c, section, option)
    THEN GetOption(c, section, option)
    ELSE None

_change_set_config_option(c, section, option, value) ==
    IF _config_option_is_set(c, section, option)
    THEN SetOption(c, section, option, value)
    ELSE c

\* _set_mayfail_true_if_both_false_dhcp without its test of the method
MayfailIgnoringMethod(c) ==
    IF \A i \in 1..Len(Families) : _get_config_option(c, Families[i], "may-fail") = "false"
    THEN _change_set_config_option(
             _change_set_config_option(c, "ipv4", "may-fail", "true"),
             "ipv6", "may-fail", "true")
    ELSE c

_set_mayfail_true_if_both_false_dhcp(c) ==
    LET both == \A i \in 1..Len(Families) :
                    /\ _get_config_option(c, Families[i], "may-fail") = "false"
                    /\ _get_config_option(c, Families[i], "method") \in {"dhcp", "auto"}
    IN  IF ~both
        THEN c
        ELSE _change_set_config_option(
                 _change_set_config_option(c, "ipv4", "may-fail", "true"),
                 "ipv6", "may-fail", "true")

method_map ==
    [t \in {"static", "static6", "dhcp6", "ipv6_slaac", "ipv6_dhcpv6-stateless",
            "ipv6_dhcpv6-stateful", "dhcp4", "dhcp"} |->
        CASE t \in {"static", "static6"} -> "manual"
          [] t = "ipv6_dhcpv6-stateful" -> "dhcp"
          [] OTHER -> "auto"]

\* the try block: method_map[subnet_type], or "auto" and may-fail on a KeyError
UnknownType(subnet_type) == subnet_type /= None /\ subnet_type \notin DOMAIN method_map

ResolvedMethod(subnet_type) ==
    IF subnet_type = None THEN "disabled"
    ELSE IF UnknownType(subnet_type) THEN "auto"
    ELSE method_map[subnet_type]

\* MarkUnknown keeping a may-fail that is already set
MarkUnknownByDefault(c, family, subnet_type) ==
    IF UnknownType(subnet_type) THEN _set_default(c, family, "may-fail", "true") ELSE c

MarkUnknown(c, family, subnet_type) ==
    IF UnknownType(subnet_type) THEN SetOption(c, family, "may-fail", "true") ELSE c

\* set ipv4 method to 'disabled' to align with sysconfig renderer
AlignIpv4(c, subnet_type) ==
    IF subnet_type \in {"ipv6_dhcpv6-stateful", "ipv6_dhcpv6-stateless", "ipv6_slaac"}
    THEN _set_default(c, "ipv4", "method", "disabled")
    ELSE c

\* ApplyMethod without its second guard: a static subnet after a dynamic one wins
ApplyMethodDowngrading(c, family, subnet_type, method) ==
    IF GetOption(c, family, "method") = "dhcp"
    THEN c
    ELSE _set_default(SetOption(AlignIpv4(c, subnet_type), family, "method", method),
                      family, "may-fail", "false")

\* ApplyMethod defaulting may-fail to "true"
ApplyMethodTolerant(c, family, subnet_type, method) ==
    IF GetOption(c, family, "method") = "dhcp"
    THEN c
    ELSE IF GetOption(c, family, "method") = "auto" /\ method = "manual"
    THEN c
    ELSE _set_default(SetOption(AlignIpv4(c, subnet_type), family, "method", method),
                      family, "may-fail", "true")

\* the two guards against a downgrade, then the assignment of method and may-fail
ApplyMethod(c, family, subnet_type, method) ==
    IF GetOption(c, family, "method") = "dhcp"
    THEN c
    ELSE IF GetOption(c, family, "method") = "auto" /\ method = "manual"
    THEN c
    ELSE _set_default(SetOption(AlignIpv4(c, subnet_type), family, "method", method),
                      family, "may-fail", "false")

_set_ip_method(c, family, subnet_type) ==
    ApplyMethod(MarkUnknown(_set_default(c, family, "method", "disabled"),
                            family, subnet_type),
                family, subnet_type, ResolvedMethod(subnet_type))

\* cloudinit.net.is_ipv6_address / is_ipv6_network on the address texts used here
IPv6Texts == {"fd00::", "fd00::1", "fd00::2", "fd00::3", "fd00::53", "fd00::54"}

is_ipv6_address(addr) == addr \in IPv6Texts

is_ipv6_network(net) == net \in IPv6Texts

\* _get_next_numbered_section counting the options of the section instead of
\* probing for the first free index
NextNumberedByCount(c, section, key_prefix) ==
    key_prefix \o ToString(Len(Options(EnsureSection(c, section), section)) + 1)

\* the key returned; the section is created by EnsureSection in the callers
_get_next_numbered_section(c, section, key_prefix) ==
    LET c1 == EnsureSection(c, section)
        free(i) == ~has_option(c1, section, key_prefix \o ToString(i))
        index == CHOOSE i \in 1..(Len(Options(c1, section)) + 1) :
                     free(i) /\ \A j \in 1..(i - 1) : ~free(j)
    IN  key_prefix \o ToString(index)

_add_numbered(c, section, key_prefix, value) ==
    SetOption(EnsureSection(c, section), section,
              _get_next_numbered_section(c, section, key_prefix), value)

_add_route_options(c, section, route, key, value) ==
    LET numbered_key == route \o "_options"
        route_options == IF has_option(c, section, numbered_key)
                         THEN GetOption(c, section, numbered_key)
                         ELSE ""
    IN  SetOption(c, section, numbered_key,
                  IF route_options /= ""
                  THEN route_options \o "," \o key \o "=" \o value
                  ELSE key \o "=" \o value)

_add_address(c, family, subnet) ==
    _add_numbered(c, family, "address",
                  subnet.address \o "/" \o ToString(subnet.prefix))

RouteFamily(route) == IF is_ipv6_network(route.network) THEN "ipv6" ELSE "ipv4"

RouteValue(route) ==
    route.network \o "/" \o ToString(route.prefix)
    \o (IF "gateway" \in DOMAIN route THEN "," \o route.gateway ELSE "")

RouteMtu(c, family, route_key, route) ==
    IF "mtu" \in DOMAIN route
    THEN _add_route_options(c, family, route_key, "mtu", ToString(route.mtu))
    ELSE c

AddRouteAt(c, family, route_key, route) ==
    RouteMtu(SetOption(EnsureSection(c, family), family, route_key, RouteValue(route)),
             family, route_key, route)

_add_route(c, route) ==
    AddRouteAt(c, RouteFamily(route),
               _get_next_numbered_section(c, RouteFamily(route), "route"), route)

NameserverFamily(dns) == IF is_ipv6_address(dns) THEN "ipv6" ELSE "ipv4"

ExtendOption(c, family, option, text) ==
    SetOption(c, family, option, GetOption(c, family, option) \o text)

\* _add_nameserver writing to a disabled family too
AddNameserverAnyMethod(c, dns) ==
    IF has_section(c, NameserverFamily(dns))
    THEN ExtendOption(_set_default(c, NameserverFamily(dns), "dns", ""),
                      NameserverFamily(dns), "dns", dns \o ";")
    ELSE c

_add_nameserver(c, dns) ==
    IF has_section(c, NameserverFamily(dns))
       /\ _get_config_option(c, NameserverFamily(dns), "method") /= "disabled"
    THEN ExtendOption(_set_default(c, NameserverFamily(dns), "dns", ""),
                      NameserverFamily(dns), "dns", dns \o ";")
    ELSE c

\* ";".join(list)
RECURSIVE Join(_, _)
Join(sep, list) ==
    IF list = <<>> THEN ""
    ELSE IF Len(list) = 1 THEN list[1]
    ELSE list[1] \o sep \o Join(sep, Tail(list))

AddDnsSearchFamily(c, family, dns_search) ==
    IF has_section(c, family)
       /\ _get_config_option(c, family, "method") /= "disabled"
    THEN ExtendOption(_set_default(c, family, "dns-search", ""), family, "dns-search",
                      Join(";", dns_search) \o ";")
    ELSE c

_add_dns_search(c, dns_search) ==
    AddDnsSearchFamily(AddDnsSearchFamily(c, "ipv4", dns_search), "ipv6", dns_search)

con_uuid(c) == GetOption(c, "connection", "uuid")

\* valid taking a profile that has a master for a connection profile
ValidWhenEnslaved(c) ==
    has_option(c, "connection", "type") \/ has_option(c, "connection", "master")

valid(c) == has_option(c, "connection", "type")


\* str(x) of a Python bool as render_interface writes it
BoolText(b) == IF b THEN "true" ELSE "false"

\* Python's None where the other values are integers (mtu, integer properties)
NoneInt == -1

\* NMConnection.mac_addr: addr.replace("-", ":").upper(), on a MAC given as its
\* sequence of characters
UpperChar(ch) ==
    CASE ch = "-" -> ":"
      [] ch = "a" -> "A"
      [] ch = "b" -> "B"
      [] ch = "c" -> "C"
      [] ch = "d" -> "D"
      [] ch = "e" -> "E"
      [] ch = "f" -> "F"
      [] OTHER -> ch

RECURSIVE mac_addr(_)
mac_addr(addr) ==
    IF addr = <<>> THEN "" ELSE UpperChar(addr[1]) \o mac_addr(Tail(addr))

(***************************************************************************)
(* Renderer.connections: an insertion-ordered dict, as a sequence of       *)
(* [key, conn] entries.                                                    *)
(***************************************************************************)
HasConn(conns, con_id) == \E i \in 1..Len(conns) : conns[i].key = con_id

ConnIdx(conns, con_id) == CHOOSE i \in 1..Len(conns) : conns[i].key = con_id

\* self.connections[con_id]
get_conn(conns, con_id) == conns[ConnIdx(conns, con_id)].conn

\* self.connections[con_id] = c
PutConn(conns, con_id, c) ==
    IF HasConn(conns, con_id)
    THEN [conns EXCEPT ![ConnIdx(conns, con_id)].conn = c]
    ELSE Append(conns, [key |-> con_id, conn |-> c])

\* con_ref passing every reference through
ConRefRaw(conns, con_id) == con_id

con_ref(conns, con_id) ==
    IF HasConn(conns, con_id)
    THEN con_uuid(get_conn(conns, con_id))
    ELSE con_id

\* iface.get("config_id") or iface["name"]
conn_key(iface) ==
    IF "config_id" \in DOMAIN iface /\ iface["config_id"] /= ""
    THEN iface["config_id"]
    ELSE iface["name"]

(***************************************************************************)
(* NMConnection.render_interface.  An interface is a function from its     *)
(* keys to values; optional keys ("config_id", "bond-master",              *)
(* "vlan-raw-device", "dns", the native properties) may be missing from    *)
(* its DOMAIN, and so may "address", "prefix", "gateway",                  *)
(* "dns_nameservers", "dns_search" and "mtu" of a subnet.  A MAC address   *)
(* is its sequence of characters, None being the empty one.                *)
(***************************************************************************)
_type_map ==
    [t \in {"physical", "vlan", "bond", "bridge", "infiniband", "loopback"} |->
        CASE t = "physical" -> "ethernet"
          [] t = "loopback" -> None
          [] OTHER -> t]

\* _prop_map, with two of the bond properties standing for the thirty: each entry
\* is handled by the same loop body
_prop_map ==
    [t \in {"bond", "bridge", "vlan", "ethernet", "infiniband"} |->
        CASE t = "bond" ->
                 << [nm_prop |-> "mode", key |-> "bond-mode", kind |-> "str"],
                    [nm_prop |-> "miimon", key |-> "bond-miimon", kind |-> "int"] >>
          [] t = "bridge" ->
                 << [nm_prop |-> "stp", key |-> "bridge_stp", kind |-> "bool"],
                    [nm_prop |-> "priority", key |-> "bridge_bridgeprio", kind |-> "int"] >>
          [] t = "vlan" ->
                 << [nm_prop |-> "id", key |-> "vlan_id", kind |-> "int"] >>
          [] OTHER -> << >>]

\* cloudinit.net.subnet_is_ipv6
subnet_is_ipv6(subnet) ==
    \/ subnet.type \in {"static6", "dhcp6", "ipv6_slaac", "ipv6_dhcpv6-stateless",
                        "ipv6_dhcpv6-stateful"}
    \/ /\ subnet.type = "static"
       /\ "address" \in DOMAIN subnet
       /\ is_ipv6_address(subnet.address)

SubnetFamily(subnet) == IF subnet_is_ipv6(subnet) THEN "ipv6" ELSE "ipv4"

InSeq(list, x) == \E i \in 1..Len(list) : list[i] = x

RECURSIVE AddRoutes(_, _)
AddRoutes(c, routes) ==
    IF routes = <<>> THEN c
    ELSE Result({ AddRoutes(c1, Tail(routes)) : c1 \in {_add_route(c, routes[1])} })

SubnetAddress(c, family, subnet) ==
    IF "address" \in DOMAIN subnet THEN _add_address(c, family, subnet) ELSE c

SubnetGateway(c, family, subnet) ==
    IF "gateway" \in DOMAIN subnet
    THEN SetOption(c, family, "gateway", subnet.gateway)
    ELSE c

\* what one pass of the loop over iface["subnets"] does to self.config
SubnetConfig(c, family, subnet) ==
    AddRoutes(SubnetGateway(SubnetAddress(_set_ip_method(c, family, subnet.type),
                                          family, subnet),
                            family, subnet),
              subnet.routes)

\* one pass of the loop over iface["subnets"]; f holds self.config and the locals
SubnetStep(f, subnet) ==
    [c |-> SubnetConfig(f.c, SubnetFamily(subnet), subnet),
     found_nameservers |->
         IF "dns_nameservers" \in DOMAIN subnet
         THEN f.found_nameservers \o subnet.dns_nameservers
         ELSE f.found_nameservers,
     found_dns_search |->
         IF "dns_search" \in DOMAIN subnet
         THEN f.found_dns_search \o subnet.dns_search
         ELSE f.found_dns_search,
     ipv4_mtu |->
         IF SubnetFamily(subnet) = "ipv4" /\ "mtu" \in DOMAIN subnet
         THEN subnet.mtu
         ELSE f.ipv4_mtu]

RECURSIVE SubnetLoop(_, _)
SubnetLoop(f, subnets) ==
    IF subnets = <<>> THEN f
    ELSE Result({ SubnetLoop(f1, Tail(subnets)) : f1 \in {SubnetStep(f, subnets[1])} })

\* BondWithoutSubnets for an interface of any type
DisabledWithoutSubnets(c, if_type, iface) ==
    IF iface["subnets"] = <<>>
    THEN _set_ip_method(_set_ip_method(c, "ipv4", None), "ipv6", None)
    ELSE c

BondWithoutSubnets(c, if_type, iface) ==
    IF if_type = "bond" /\ iface["subnets"] = <<>>
    THEN _set_ip_method(_set_ip_method(c, "ipv4", None), "ipv6", None)
    ELSE c

\* layer 3: the bond special case, then the loop over the subnets
RenderLayer3(c, if_type, iface) ==
    SubnetLoop([c |-> BondWithoutSubnets(c, if_type, iface),
                found_nameservers |-> <<>>, found_dns_search |-> <<>>,
                ipv4_mtu |-> NoneInt],
               iface["subnets"])

\* interface-level entries not yet found are appended
\* MergeIfaceDns appending every interface-level entry
MergeIfaceDnsAll(found, iface, field) ==
    IF "dns" \in DOMAIN iface THEN found \o iface["dns"][field] ELSE found

MergeIfaceDns(found, iface, field) ==
    IF "dns" \in DOMAIN iface
    THEN found \o SelectSeq(iface["dns"][field], LAMBDA d : ~InSeq(found, d))
    ELSE found

\* GlobalFallback merging the global entries into what was found
GlobalMerged(found, global) == found \o global

\* the global entries are used if nothing was found
GlobalFallback(found, global) ==
    IF found = <<>> /\ global /= <<>> THEN global ELSE found

FoundDns(found, iface, field, global) ==
    GlobalFallback(MergeIfaceDns(found, iface, field), global)

RECURSIVE AddNameservers(_, _)
AddNameservers(c, found_nameservers) ==
    IF found_nameservers = <<>> THEN c
    ELSE Result({ AddNameservers(c1, Tail(found_nameservers)) :
                      c1 \in {_add_nameserver(c, found_nameservers[1])} })

AddSearch(c, found_dns_search) ==
    IF found_dns_search /= <<>> THEN _add_dns_search(c, found_dns_search) ELSE c

WriteDns(c, found_nameservers, found_dns_search) ==
    AddSearch(AddNameservers(c, found_nameservers), found_dns_search)

PropText(iface, prop) ==
    CASE prop.kind = "bool" -> BoolText(iface[prop.key])
      [] prop.kind = "int" -> ToString(iface[prop.key])
      [] OTHER -> iface[prop.key]

PropIsNone(iface, prop) ==
    CASE prop.kind = "bool" -> FALSE
      [] prop.kind = "int" -> iface[prop.key] = NoneInt
      [] OTHER -> iface[prop.key] = None

ApplyProp(c, if_type, iface, prop) ==
    IF prop.key \notin DOMAIN iface \/ PropIsNone(iface, prop)
    THEN c
    ELSE SetOption(c, if_type, prop.nm_prop, PropText(iface, prop))

RECURSIVE ApplyProps(_, _, _, _)
ApplyProps(c, if_type, iface, props) ==
    IF props = <<>> THEN c
    ELSE ApplyProps(ApplyProp(c, if_type, iface, props[1]), if_type, iface, Tail(props))

SetMac(c, section, iface) ==
    IF iface["mac_address"] /= <<>>
    THEN SetOption(c, section, "mac-address", mac_addr(iface["mac_address"]))
    ELSE c

SetMtu(c, section, ipv4_mtu) ==
    IF ipv4_mtu /= NoneInt THEN SetOption(c, section, "mtu", ToString(ipv4_mtu)) ELSE c

WakeOnLan(c, iface) ==
    IF iface["wakeonlan"] = TRUE
    THEN SetOption(c, "ethernet", "wake-on-lan", ToString(64))
    ELSE c

Ethernet(c, if_type, iface, ipv4_mtu) ==
    IF if_type = "ethernet"
    THEN SetMac(SetMtu(WakeOnLan(c, iface), "ethernet", ipv4_mtu), "ethernet", iface)
    ELSE c

Vlan(c, if_type, iface, conns) ==
    IF if_type = "vlan" /\ "vlan-raw-device" \in DOMAIN iface
    THEN SetOption(c, "vlan", "parent", con_ref(conns, iface["vlan-raw-device"]))
    ELSE c

Bond(c, if_type, ipv4_mtu) ==
    IF if_type = "bond" /\ ipv4_mtu /= NoneInt
    THEN SetOption(EnsureSection(c, "ethernet"), "ethernet", "mtu", ToString(ipv4_mtu))
    ELSE c

Infiniband(c, if_type, iface, ipv4_mtu) ==
    IF if_type = "infiniband" /\ ipv4_mtu /= NoneInt
    THEN SetMac(SetOption(SetOption(c, "infiniband", "transport-mode", "datagram"),
                          "infiniband", "mtu", ToString(ipv4_mtu)),
                "infiniband", iface)
    ELSE c

\* EnslavePort without the master
EnslavePortSlaveTypeOnly(port, master) ==
    _set_default(port, "connection", "slave-type", "bridge")

\* the loop over iface["bridge_ports"]: get_conn raises KeyError on an unknown port
EnslavePort(port, master) ==
    _set_default(_set_default(port, "connection", "slave-type", "bridge"),
                 "connection", "master", master)

RECURSIVE BridgePorts(_, _, _)
BridgePorts(conns, ports, master) ==
    IF ports = <<>> THEN [connections |-> conns, raised |-> None]
    ELSE IF ~HasConn(conns, ports[1]) THEN [connections |-> conns, raised |-> "KeyError"]
    ELSE BridgePorts(PutConn(conns, ports[1], EnslavePort(get_conn(conns, ports[1]), master)),
                     Tail(ports), master)

\* Finish naming the interface whatever the section holds
FinishAlways(c, if_type, iface) ==
    SetOption(c, "connection", "interface-name", iface["name"])

Finish(c, if_type, iface) ==
    IF if_type = "bridge" \/ ~has_option(c, if_type, "mac-address")
    THEN SetOption(c, "connection", "interface-name", iface["name"])
    ELSE c

\* ResolveMtu preferring the device-level mtu
ResolveMtuDeviceFirst(ipv4_mtu, device_mtu) ==
    IF device_mtu = NoneInt THEN ipv4_mtu ELSE device_mtu

\* if ipv4_mtu is None: ipv4_mtu = device_mtu
ResolveMtu(ipv4_mtu, device_mtu) ==
    IF ipv4_mtu = NoneInt THEN device_mtu ELSE ipv4_mtu

NoLocals ==
    [found_nameservers |-> <<>>, found_dns_search |-> <<>>, ipv4_mtu |-> NoneInt,
     warned |-> FALSE]

\* type, slave-type, master and the empty type-specific section
RenderHead(c, conns, iface, if_type) ==
    SetSection(
        IF "bond-master" \in DOMAIN iface
        THEN SetOption(SetOption(SetOption(c, "connection", "type", if_type),
                                 "connection", "slave-type", "bond"),
                       "connection", "master", con_ref(conns, iface["bond-master"]))
        ELSE SetOption(c, "connection", "type", if_type),
        if_type)

\* the DNS entries found are written, then may-fail is settled
RenderDnsWith(c, found_nameservers, found_dns_search, ipv4_mtu) ==
    [c |-> _set_mayfail_true_if_both_false_dhcp(
               WriteDns(c, found_nameservers, found_dns_search)),
     found_nameservers |-> found_nameservers,
     found_dns_search |-> found_dns_search,
     ipv4_mtu |-> ipv4_mtu]

RenderDns(l3, iface, ns) ==
    RenderDnsWith(l3.c,
                  FoundDns(l3.found_nameservers, iface, "nameservers", ns.dns_nameservers),
                  FoundDns(l3.found_dns_search, iface, "search", ns.dns_searchdomains),
                  l3.ipv4_mtu)

EndLocals(f, ipv4_mtu, device_mtu) ==
    [found_nameservers |-> f.found_nameservers, found_dns_search |-> f.found_dns_search,
     ipv4_mtu |-> ipv4_mtu, warned |-> ipv4_mtu /= device_mtu]

\* the bridge rule and the finish, once self.config c is back in the registry
BridgeEnd(ported, self_key, iface, ended) ==
    IF ported.raised /= None
    THEN [connections |-> ported.connections, raised |-> ported.raised, locals |-> ended]
    ELSE [connections |->
              PutConn(ported.connections, self_key,
                      Finish(SetMac(get_conn(ported.connections, self_key), "bridge", iface),
                             "bridge", iface)),
          raised |-> None, locals |-> ended]

Bridge(conns, self_key, iface, c, ended) ==
    BridgeEnd(BridgePorts(PutConn(conns, self_key, c), iface["bridge_ports"], con_uuid(c)),
              self_key, iface, ended)

\* the properties and the type-specific rules, with the mtu resolved
RenderTyped(conns, self_key, iface, if_type, c, ipv4_mtu, ended) ==
    IF if_type = "bridge"
    THEN Bridge(conns, self_key, iface,
                ApplyProps(c, if_type, iface, _prop_map[if_type]), ended)
    ELSE [connections |->
              PutConn(conns, self_key,
                      Finish(Infiniband(Bond(Vlan(Ethernet(
                                 ApplyProps(c, if_type, iface, _prop_map[if_type]),
                                 if_type, iface, ipv4_mtu),
                                 if_type, iface, conns),
                                 if_type, ipv4_mtu),
                                 if_type, iface, ipv4_mtu),
                             if_type, iface)),
          raised |-> None, locals |-> ended]

RenderMtu(conns, self_key, iface, if_type, f, ipv4_mtu) ==
    RenderTyped(conns, self_key, iface, if_type, f.c, ipv4_mtu,
                EndLocals(f, ipv4_mtu, iface["mtu"]))

RenderMapped(conns, self_key, iface, ns, if_type, f) ==
    RenderMtu(conns, self_key, iface, if_type, f, ResolveMtu(f.ipv4_mtu, iface["mtu"]))

\* render_interface on self = conns[self_key]: the registry afterwards, the
\* exception raised (or None) and the locals the call ended with
render_interface(conns, self_key, iface, ns) ==
    IF iface["type"] \notin DOMAIN _type_map
    THEN [connections |-> conns, raised |-> "KeyError", locals |-> NoLocals]
    ELSE IF _type_map[iface["type"]] = None
    THEN [connections |-> conns, raised |-> None, locals |-> NoLocals]
    ELSE Result({ RenderMapped(conns, self_key, iface, ns, _type_map[iface["type"]], f) :
                      f \in { RenderDns(l3, iface, ns) :
                                 l3 \in { RenderLayer3(
                                              RenderHead(get_conn(conns, self_key), conns,
                                                         iface, _type_map[iface["type"]]),
                                              _type_map[iface["type"]], iface) } } })

\* NMConnection.dump: configparser.write(space_around_delimiters=False) after the header
RECURSIVE DumpOptions(_)
DumpOptions(opts) ==
    IF opts = <<>> THEN ""
    ELSE opts[1].k \o "=" \o opts[1].v \o "\n" \o DumpOptions(Tail(opts))

RECURSIVE DumpSections(_)
DumpSections(c) ==
    IF c = <<>> THEN ""
    ELSE "[" \o c[1].name \o "]\n" \o DumpOptions(c[1].opts) \o "\n"
         \o DumpSections(Tail(c))

dump(c) == "# Generated by cloud-init. Changes will be lost.\n\n" \o DumpSections(c)

\* with target = None
nm_conn_filename(con_id) ==
    "/etc/NetworkManager/system-connections/cloud-init-" \o con_id \o ".nmconnection"

cloud_init_nm_conf_filename ==
    "/etc/NetworkManager/conf.d/30-cloud-init-ip6-addr-gen-mode.conf"

NM_IPV6_ADDR_GEN_CONF ==
    "# This is generated by cloud-init. Do not edit.\n#\n[.config]\n"
    \o "  enable=nm-version-min:1.40\n[connection.30-cloud-init-ip6-addr-gen-mode]\n"
    \o "  # Select EUI64 to be used if the profile does not specify it.\n"
    \o "  ipv6.addr-gen-mode=0\n\n"

(***************************************************************************)
(* Specification Spec: one NMConnection, its methods called one at a time  *)
(* in any order, with inputs drawn from small sets.                        *)
(***************************************************************************)
SubnetTypeInputs ==
    {None, "static", "static6", "dhcp4", "ipv6_slaac", "ipv6_dhcpv6-stateful", "manual"}

AddressInputs ==
    [ipv4 |-> [address |-> "10.0.0.2", prefix |-> 24],
     ipv6 |-> [address |-> "fd00::2", prefix |-> 64]]

RouteInputs ==
    { [network |-> "10.1.0.0", prefix |-> 16, gateway |-> "10.0.0.1", mtu |-> 1400],
      [network |-> "fd00::", prefix |-> 8] }

NameserverInputs == {"1.1.1.1", "fd00::53"}

SearchInputs == { <<"a.test", "b.test">> }

EmptyNetworkState ==
    [interfaces |-> <<>>, dns_nameservers |-> <<>>, dns_searchdomains |-> <<>>]

NoPrev ==
    [network_state |-> EmptyNetworkState, connections |-> <<>>, written |-> <<>>,
     pc |-> "idle"]

RenderIdle ==
    /\ connections = <<>>
    /\ network_state = EmptyNetworkState
    /\ pc = "idle"
    /\ idx = 1
    /\ written = <<>>
    /\ prev = NoPrev
    /\ raised = None
    /\ log = <<>>
    /\ locals = NoLocals
    /\ renders = 0

NoneAdded == [f \in {"ipv4", "ipv6"} |-> [address |-> 0, route |-> 0]]

BuilderIdle ==
    /\ conn = NMConnection("eth0")
    /\ added = NoneAdded
    /\ lastOp = [op |-> "__init__", family |-> None, arg |-> "eth0"]
    /\ ops = 0

Init == BuilderIdle /\ RenderIdle

Called(op, family, arg) ==
    /\ ops < MaxOps
    /\ ops' = ops + 1
    /\ lastOp' = [op |-> op, family |-> family, arg |-> arg]
    /\ UNCHANGED renderVars

SetIpMethod ==
    \E family \in {"ipv4", "ipv6"}, subnet_type \in SubnetTypeInputs :
        /\ Called("_set_ip_method", family, subnet_type)
        /\ conn' = _set_ip_method(conn, family, subnet_type)
        /\ UNCHANGED added

AddAddress ==
    \E family \in {"ipv4", "ipv6"} :
        /\ Called("_add_address", family, AddressInputs[family].address)
        /\ conn' = _add_address(conn, family, AddressInputs[family])
        /\ added' = [added EXCEPT ![family].address = @ + 1]

AddRoute ==
    \E route \in RouteInputs :
        /\ Called("_add_route", RouteFamily(route), route.network)
        /\ conn' = _add_route(conn, route)
        /\ added' = [added EXCEPT ![RouteFamily(route)].route = @ + 1]

AddNameserver ==
    \E dns \in NameserverInputs :
        /\ Called("_add_nameserver", None, dns)
        /\ conn' = _add_nameserver(conn, dns)
        /\ UNCHANGED added

AddDnsSearch ==
    \E dns_search \in SearchInputs :
        /\ Called("_add_dns_search", None, Join(";", dns_search))
        /\ conn' = _add_dns_search(conn, dns_search)
        /\ UNCHANGED added

SetMayfail ==
    /\ Called("_set_mayfail_true_if_both_false_dhcp", None, None)
    /\ conn' = _set_mayfail_true_if_both_false_dhcp(conn)
    /\ UNCHANGED added

Next ==
    \/ SetIpMethod
    \/ AddAddress
    \/ AddRoute
    \/ AddNameserver
    \/ AddDnsSearch
    \/ SetMayfail

Spec == Init /\ [][Next]_vars


(***************************************************************************)
(* Renderer.render_network_state, one step per loop iteration.             *)
(***************************************************************************)
Interfaces == network_state.interfaces

\* where control goes after the loop named by phase ("start": on entry), with n
\* interfaces and m connections
PhaseAfter(phase, n, m) ==
    CASE phase = "start" /\ n > 0 -> "pass1"
      [] phase = "pass1" -> "pass2"
      [] phase = "emit" -> "conf"
      [] OTHER -> IF m > 0 THEN "emit" ELSE "conf"

\* a call of render_network_state(ns) on this Renderer
StartRender(ns) ==
    /\ pc \in {"idle", "done", "raised"}
    /\ renders < MaxRenders
    /\ renders' = renders + 1
    /\ network_state' = ns
    /\ prev' = IF renders = 0 THEN prev
               ELSE [network_state |-> network_state, connections |-> connections,
                     written |-> written, pc |-> pc]
    /\ pc' = PhaseAfter("start", Len(ns.interfaces), Len(connections))
    /\ idx' = 1
    /\ written' = <<>>
    /\ raised' = None
    /\ log' = <<>>
    /\ locals' = NoLocals
    /\ UNCHANGED connections
    /\ UNCHANGED builderVars

\* Pass1Body keeping the profile a key already has
Pass1BodyKeeping(conns, iface) ==
    IF HasConn(conns, conn_key(iface))
    THEN conns
    ELSE PutConn(conns, conn_key(iface), NMConnection(iface["name"]))

\* Pass1Body naming the profile after its key
Pass1BodyByKey(conns, iface) ==
    PutConn(conns, conn_key(iface), NMConnection(conn_key(iface)))

\* first pass: self.connections[conn_key] = NMConnection(iface["name"])
Pass1Body(conns, iface) == PutConn(conns, conn_key(iface), NMConnection(iface["name"]))

Pass1Step ==
    /\ pc = "pass1"
    /\ connections' = Pass1Body(connections, Interfaces[idx])
    /\ IF idx < Len(Interfaces)
       THEN idx' = idx + 1 /\ pc' = pc
       ELSE idx' = 1 /\ pc' = PhaseAfter("pass1", Len(Interfaces), Len(connections'))
    /\ UNCHANGED <<network_state, written, prev, raised, log, locals, renders>>
    /\ UNCHANGED builderVars

\* second pass: conn.render_interface(iface, network_state, self)
Pass2Takes(iface, r) ==
    /\ connections' = r.connections
    /\ raised' = r.raised
    /\ locals' = r.locals
    /\ log' = IF r.locals.warned THEN Append(log, iface["name"]) ELSE log
    /\ IF r.raised /= None
       THEN idx' = idx /\ pc' = "raised"
       ELSE IF idx < Len(Interfaces)
       THEN idx' = idx + 1 /\ pc' = pc
       ELSE idx' = 1 /\ pc' = PhaseAfter("pass2", Len(Interfaces), Len(r.connections))

Pass2Step ==
    /\ pc = "pass2"
    /\ Pass2Takes(Interfaces[idx],
                  render_interface(connections, conn_key(Interfaces[idx]),
                                   Interfaces[idx], network_state))
    /\ UNCHANGED <<network_state, written, prev, renders>>
    /\ UNCHANGED builderVars

\* third loop: write the valid connections
EmitStep ==
    /\ pc = "emit"
    /\ LET con_id == connections[idx].key
           c == connections[idx].conn
       IN  written' = IF valid(c)
                      THEN Append(written, [name |-> nm_conn_filename(con_id),
                                            content |-> dump(c), mode |-> "0o600"])
                      ELSE written
    /\ IF idx < Len(connections)
       THEN idx' = idx + 1 /\ pc' = pc
       ELSE idx' = 1 /\ pc' = PhaseAfter("emit", Len(Interfaces), Len(connections))
    /\ UNCHANGED <<connections, network_state, prev, raised, log, locals, renders>>
    /\ UNCHANGED builderVars

WriteConf ==
    /\ pc = "conf"
    /\ written' = Append(written, [name |-> cloud_init_nm_conf_filename,
                                   content |-> NM_IPV6_ADDR_GEN_CONF, mode |-> "0o600"])
    /\ pc' = "done"
    /\ UNCHANGED <<connections, network_state, idx, prev, raised, log, locals, renders>>
    /\ UNCHANGED builderVars

(***************************************************************************)
(* Inputs: interfaces and subnets as network_state yields them.            *)
(***************************************************************************)
SeqsUpTo(S, n) == UNION { [1..k -> S] : k \in 0..n }

IfaceBase(name, type) ==
    [name |-> name, type |-> type, mtu |-> NoneInt, mac_address |-> << >>,
     wakeonlan |-> FALSE, subnets |-> << >>]

Iface(name, type) ==
    IF type = "bridge"
    THEN ("bridge_ports" :> << >>) @@ IfaceBase(name, type)
    ELSE IfaceBase(name, type)

Subnet(type) == [type |-> type, routes |-> << >>]

WithSubnets(iface, subnets) == [iface EXCEPT !["subnets"] = subnets]

NetworkState(interfaces, nameservers, search) ==
    [interfaces |-> interfaces, dns_nameservers |-> nameservers,
     dns_searchdomains |-> search]

Mac == << "a", "a", "-", "b", "b", "-", "0", "1" >>

\* layer-3 variety: every class of subnet type, addresses, a gateway, routes of both
\* families inside an ipv4 subnet
L3Subnets ==
    { Subnet(t) : t \in {"dhcp4", "dhcp6", "ipv6_slaac", "ipv6_dhcpv6-stateful",
                         "manual"} }
    \cup { [type |-> "static", address |-> "10.0.0.2", prefix |-> 24,
            gateway |-> "10.0.0.1",
            routes |-> << [network |-> "10.1.0.0", prefix |-> 16,
                           gateway |-> "10.0.0.1", mtu |-> 1400],
                          [network |-> "fd00::", prefix |-> 8] >>],
           [type |-> "static6", address |-> "fd00::2", prefix |-> 64, routes |-> << >>],
           [type |-> "static", address |-> "fd00::3", prefix |-> 64, routes |-> << >>] }

L3States ==
    { NetworkState(<< WithSubnets(Iface("eth0", t), ss) >>, << >>, << >>) :
        t \in {"physical", "bond"}, ss \in SeqsUpTo(L3Subnets, MaxSubnets) }

\* DNS variety: subnet-level, interface-level and global entries
DnsSubnets ==
    { Subnet("dhcp4"),
      [type |-> "dhcp4", routes |-> << >>, dns_nameservers |-> << "1.1.1.1" >>,
       dns_search |-> << "a.test" >>],
      [type |-> "dhcp4", routes |-> << >>, dns_nameservers |-> << >>],
      [type |-> "dhcp6", routes |-> << >>,
       dns_nameservers |-> << "fd00::53", "9.9.9.9" >>] }

DnsIfaces ==
    { WithSubnets(i, ss) :
        i \in { Iface("eth0", "physical"),
                ("dns" :> [nameservers |-> << "1.1.1.1", "9.9.9.9", "fd00::1" >>,
                           search |-> << "a.test", "c.test" >>])
                @@ Iface("eth0", "physical") },
        ss \in SeqsUpTo(DnsSubnets, MaxSubnets) }

DnsStates ==
    { NetworkState(<< i >>, g.nameservers, g.search) :
        i \in DnsIfaces,
        g \in { [nameservers |-> << >>, search |-> << >>],
                [nameservers |-> << "8.8.8.8", "fd00::54" >>, search |-> << "g.test" >>] } }

\* MTU variety: device-level and subnet-level values on every interface type
MtuSubnets ==
    { Subnet("dhcp4"),
      [type |-> "dhcp4", routes |-> << >>, mtu |-> 9000],
      [type |-> "dhcp4", routes |-> << >>, mtu |-> 1500],
      [type |-> "dhcp6", routes |-> << >>, mtu |-> 1400] }

MtuStates ==
    { NetworkState(<< [WithSubnets(Iface("eth0", t), ss)
                          EXCEPT !["mtu"] = m, !["mac_address"] = a] >>, << >>, << >>) :
        t \in {"physical", "bond", "vlan", "bridge", "infiniband"},
        m \in {NoneInt, 1500}, a \in {<< >>, Mac},
        ss \in SeqsUpTo(MtuSubnets, MaxSubnets) }


\* the remaining keys render_interface reads: wake-on-lan and the native properties
MiscStates ==
    { NetworkState(<< i >>, << >>, << >>) :
        i \in { [Iface("eth0", "physical") EXCEPT !["wakeonlan"] = TRUE],
                ("vlan_id" :> 5) @@ Iface("eth0", "vlan"),
                ("bridge_stp" :> FALSE) @@ ("bridge_bridgeprio" :> 22)
                    @@ Iface("eth0", "bridge"),
                ("bond-mode" :> "active-backup") @@ ("bond-miimon" :> NoneInt)
                    @@ Iface("eth0", "bond"),
                Iface("eth0", "loopback") } }

\* DNS on families that are disabled or have no method: ipv6_slaac disables ipv4,
\* an ipv6 route of an ipv4 subnet makes an ipv6 section, a bond without subnets
\* disables both; one subnet carries search domains only
DnsEdgeSubnets ==
    { Subnet("dhcp4"),
      [type |-> "ipv6_slaac", routes |-> << >>,
       dns_nameservers |-> << "9.9.9.9", "fd00::53" >>],
      [type |-> "static", address |-> "10.0.0.2", prefix |-> 24,
       routes |-> << [network |-> "fd00::", prefix |-> 8] >>],
      [type |-> "dhcp4", routes |-> << >>, dns_search |-> << "b.test" >>] }

DnsEdgeStates ==
    { NetworkState(<< WithSubnets(i, ss) >>, g.nameservers, g.search) :
        i \in { Iface("eth0", "physical"),
                ("dns" :> [nameservers |-> << "1.1.1.1", "fd00::1" >>,
                           search |-> << "b.test", "c.test" >>])
                @@ Iface("eth0", "bond") },
        ss \in SeqsUpTo(DnsEdgeSubnets, MaxSubnets),
        g \in { [nameservers |-> << >>, search |-> << >>],
                [nameservers |-> << "8.8.8.8", "fd00::54" >>, search |-> << "g.test" >>] } }

IfaceStates ==
    L3States \cup DnsStates \cup DnsEdgeStates \cup MtuStates \cup MiscStates

\* topologies with cross-references: bond slaves, vlan parents, bridge ports, explicit
\* connection ids, a loopback and a type _type_map does not know; a reference dangles
\* when the topology leaves its target out
Dhcp4 == << Subnet("dhcp4") >>

Static4 == << [type |-> "static", address |-> "10.0.0.2", prefix |-> 24, routes |-> << >>] >>

LinkIfaces ==
    { WithSubnets(Iface("eth0", "physical"), Dhcp4),
      ("bond-master" :> "bond0") @@ Iface("eth0", "physical"),
      ("config_id" :> "id0") @@ WithSubnets(Iface("eth0", "physical"), Static4),
      [Iface("br0", "bridge") EXCEPT !["bridge_ports"] = << "eth0" >>],
      [Iface("br0", "bridge") EXCEPT !["bridge_ports"] = << "eth0", "lo" >>],
      [Iface("br1", "bridge") EXCEPT !["bridge_ports"] = << "eth0" >>],
      Iface("bond0", "bond"),
      ("vlan-raw-device" :> "eth0") @@ ("vlan_id" :> 5) @@ Iface("vlan0", "vlan"),
      Iface("lo", "loopback"),
      Iface("dummy0", "dummy") }

\* iter_interfaces yields each interface once: names and connection keys are distinct
Distinct(interfaces) ==
    \A i, j \in 1..Len(interfaces) :
        i /= j => /\ interfaces[i]["name"] /= interfaces[j]["name"]
                  /\ conn_key(interfaces[i]) /= conn_key(interfaces[j])

LinkStates ==
    { NetworkState(is, << >>, << >>) :
        is \in { t \in SeqsUpTo(LinkIfaces, MaxIfaces) : t /= << >> /\ Distinct(t) } }

\* what a later call on the same Renderer is given: the same topology, the topology
\* without its first interface, the topology with the interfaces that carry a
\* config_id renamed, or with their config_id dropped, or the same interfaces in
\* the opposite order
DropFirst(ns) ==
    [ns EXCEPT !.interfaces = IF @ = << >> THEN @ ELSE Tail(@)]

Renamed(ns) ==
    [ns EXCEPT !.interfaces =
        [i \in 1..Len(@) |->
            IF "config_id" \in DOMAIN @[i] THEN [@[i] EXCEPT !["name"] = "ens3"] ELSE @[i]]]

Rekeyed(ns) ==
    [ns EXCEPT !.interfaces =
        [i \in 1..Len(@) |->
            IF "config_id" \in DOMAIN @[i] THEN [@[i] EXCEPT !["config_id"] = ""] ELSE @[i]]]

Reversed(ns) ==
    [ns EXCEPT !.interfaces = [i \in 1..Len(@) |-> @[Len(@) + 1 - i]]]

Rerenders(ns) == {ns, DropFirst(ns), Renamed(ns), Rekeyed(ns), Reversed(ns)}

(***************************************************************************)
(* Specification SpecIface: a fresh Renderer renders one interface, with   *)
(* every variety of subnets, DNS, MTU and properties.                      *)
(***************************************************************************)
RenderIface == \E ns \in IfaceStates : renders = 0 /\ StartRender(ns)

NextIface ==
    \/ RenderIface
    \/ Pass1Step
    \/ Pass2Step
    \/ EmitStep
    \/ WriteConf

SpecIface == Init /\ [][NextIface]_vars

(***************************************************************************)
(* Specification SpecRender: a Renderer renders a topology of linked       *)
(* interfaces, and is then used again.                                     *)
(***************************************************************************)
RenderFirst == \E ns \in LinkStates : renders = 0 /\ StartRender(ns)

RenderAgain ==
    /\ renders > 0
    /\ \E ns \in Rerenders(network_state) : StartRender(ns)

NextRender ==
    \/ RenderFirst
    \/ RenderAgain
    \/ Pass1Step
    \/ Pass2Step
    \/ EmitStep
    \/ WriteConf

SpecRender == Init /\ [][NextRender]_vars


(***************************************************************************)
(* Properties of one NMConnection (specification Spec).                    *)
(***************************************************************************)
Method(c, family) == _get_config_option(c, family, "method")

MayFail(c, family) == _get_config_option(c, family, "may-fail")

\* C1: the layer-3 method of a family is never downgraded: once it is "dhcp" no
\* later call changes it, and once it is "auto" a later _set_ip_method with a
\* static or static6 subnet on that family leaves it "auto".
C1_MethodNeverDowngraded ==
    [][\A family \in {"ipv4", "ipv6"} :
          /\ Method(conn, family) = "dhcp" => Method(conn', family) = "dhcp"
          /\ ( /\ Method(conn, family) = "auto"
               /\ lastOp'.op = "_set_ip_method"
               /\ lastOp'.family = family
               /\ lastOp'.arg \in {"static", "static6"} )
             => Method(conn', family) = "auto"]_vars

\* C1 witness: a static subnet was processed on a family that is, and so already
\* was, "auto" (a static subnet on any other method but "dhcp" yields "manual").
C1_Witness ==
    /\ lastOp.op = "_set_ip_method"
    /\ lastOp.family = "ipv4"
    /\ lastOp.arg = "static"
    /\ Method(conn, "ipv4") = "auto"

NumberedRange == 0..(MaxOps + 1)

NumberedKeys(key_prefix) == { key_prefix \o ToString(n) : n \in NumberedRange }

OptionNames(c, section) ==
    IF has_section(c, section)
    THEN { Options(c, section)[j].k : j \in 1..Len(Options(c, section)) }
    ELSE {}

\* C3: in each family section the address<n> keys are exactly address1..addressN
\* and the route<n> keys exactly route1..routeM, N and M being the numbers of
\* addresses and routes added to the family; every other key is one of the
\* unnumbered ones.
C3_NumberedKeysContiguous ==
    \A family \in {"ipv4", "ipv6"} :
        /\ \A n \in NumberedRange :
              /\ has_option(conn, family, "address" \o ToString(n))
                    <=> (1 <= n /\ n <= added[family].address)
              /\ has_option(conn, family, "route" \o ToString(n))
                    <=> (1 <= n /\ n <= added[family].route)
        /\ OptionNames(conn, family) \subseteq
              NumberedKeys("address") \cup NumberedKeys("route")
              \cup { k \o "_options" : k \in NumberedKeys("route") }
              \cup {"method", "may-fail", "dns", "dns-search", "gateway"}

\* C3 witness: two addresses and a route in one family, a route in the other.
C3_Witness ==
    /\ added["ipv4"].address = 2
    /\ added["ipv4"].route = 1
    /\ added["ipv6"].route = 1
    /\ has_option(conn, "ipv4", "address2")


(***************************************************************************)
(* Properties of render_interface on one interface (specification          *)
(* SpecIface).                                                             *)
(***************************************************************************)
TheIface == Interfaces[1]

Profile == get_conn(connections, conn_key(TheIface))

\* render_interface has returned for the interface
Rendered == renders = 1 /\ pc \in {"emit", "conf", "done"}

Mappable(iface) ==
    iface["type"] \in DOMAIN _type_map /\ _type_map[iface["type"]] /= None

Recognized(iface) ==
    \A i \in 1..Len(iface["subnets"]) : iface["subnets"][i].type \in DOMAIN method_map

Dynamic(c, family) == Method(c, family) \in {"auto", "dhcp"}

Other(family) == IF family = "ipv4" THEN "ipv6" ELSE "ipv4"

\* C2: after render_interface of an interface whose subnet types are all
\* recognized, if both families are dynamic (auto or dhcp) both have
\* may-fail=true, and if exactly one is dynamic its may-fail is false.
C2_DualStackMayFail ==
    (Rendered /\ Mappable(TheIface) /\ Recognized(TheIface)) =>
        /\ (Dynamic(Profile, "ipv4") /\ Dynamic(Profile, "ipv6")) =>
              (MayFail(Profile, "ipv4") = "true" /\ MayFail(Profile, "ipv6") = "true")
        /\ \A family \in {"ipv4", "ipv6"} :
              (Dynamic(Profile, family) /\ ~Dynamic(Profile, Other(family))) =>
                  MayFail(Profile, family) = "false"

\* C2 witness: a rendered interface with a dynamic ipv4 and a dynamic ipv6 subnet.
C2_Witness ==
    /\ Rendered /\ Mappable(TheIface) /\ Recognized(TheIface)
    /\ Method(Profile, "ipv4") = "auto" /\ Method(Profile, "ipv6") = "dhcp"
    /\ MayFail(Profile, "ipv4") = "true"

RECURSIVE SubnetNameservers(_)
SubnetNameservers(subnets) ==
    IF subnets = << >> THEN << >>
    ELSE (IF "dns_nameservers" \in DOMAIN subnets[1]
          THEN subnets[1].dns_nameservers ELSE << >>)
         \o SubnetNameservers(Tail(subnets))

CarriesNameservers(iface) ==
    \E i \in 1..Len(iface["subnets"]) : "dns_nameservers" \in DOMAIN iface["subnets"][i]

RECURSIVE DnsText(_, _)
DnsText(nameservers, family) ==
    IF nameservers = << >> THEN ""
    ELSE (IF (nameservers[1] \in IPv6Texts) <=> (family = "ipv6")
          THEN nameservers[1] \o ";" ELSE "")
         \o DnsText(Tail(nameservers), family)

\* the dns keys of profile c hold exactly these nameservers, each in its family
DnsWritten(c, nameservers) ==
    \A family \in {"ipv4", "ipv6"} :
        IF has_section(c, family) /\ Method(c, family) /= "disabled"
           /\ DnsText(nameservers, family) /= ""
        THEN _get_config_option(c, family, "dns") = DnsText(nameservers, family)
        ELSE ~has_option(c, family, "dns")

\* the subnet-level nameservers, then the interface-level ones not among them
SubnetThenIface(iface) ==
    LET sub == SubnetNameservers(iface["subnets"])
        own == IF "dns" \in DOMAIN iface THEN iface["dns"].nameservers ELSE << >>
    IN  sub \o SelectSeq(own, LAMBDA d : \A i \in 1..Len(sub) : sub[i] /= d)

\* C4 as claimed: if a subnet carries dns_nameservers, the nameservers written to
\* the profile are the subnet-level ones only.
C4_SubnetDnsOnly ==
    (Rendered /\ Mappable(TheIface) /\ CarriesNameservers(TheIface)) =>
        DnsWritten(Profile, SubnetNameservers(TheIface["subnets"]))

\* C4 amended: if the subnets carry at least one nameserver, the nameservers
\* written to the profile are the subnet-level ones followed by the
\* interface-level ones not among them, and no global nameserver is added.
C4_SubnetDnsExcludesGlobal ==
    (Rendered /\ Mappable(TheIface) /\ SubnetNameservers(TheIface["subnets"]) /= << >>) =>
        DnsWritten(Profile, SubnetThenIface(TheIface))

\* C4 witness: subnet-level, interface-level and global nameservers all present,
\* and the ipv4 dns key holds the subnet-level one, then the interface-level one.
C4_Witness ==
    /\ Rendered
    /\ SubnetNameservers(TheIface["subnets"]) = << "1.1.1.1" >>
    /\ "dns" \in DOMAIN TheIface
    /\ network_state.dns_nameservers /= << >>
    /\ _get_config_option(Profile, "ipv4", "dns") = "1.1.1.1;9.9.9.9;"

RECURSIVE Ipv4Mtus(_)
Ipv4Mtus(subnets) ==
    IF subnets = << >> THEN << >>
    ELSE (IF ~subnet_is_ipv6(subnets[1]) /\ "mtu" \in DOMAIN subnets[1]
          THEN << subnets[1].mtu >> ELSE << >>)
         \o Ipv4Mtus(Tail(subnets))

LastOf(list) == list[Len(list)]

\* C5: when an ipv4 subnet carries an mtu, rendering does not raise, every mtu key
\* written holds the subnet-level mtu (the last one given) and not the
\* device-level one, ethernet, bond and infiniband profiles have that key, and
\* a warning is logged exactly when the two values differ.
C5_SubnetMtuWins ==
    (Rendered /\ Mappable(TheIface) /\ Ipv4Mtus(TheIface["subnets"]) /= << >>) =>
        LET mtu == LastOf(Ipv4Mtus(TheIface["subnets"]))
        IN  /\ raised = None
            /\ \A section \in {"ethernet", "bond", "bridge", "vlan", "infiniband"} :
                  has_option(Profile, section, "mtu") =>
                      GetOption(Profile, section, "mtu") = ToString(mtu)
            /\ TheIface["type"] \in {"physical", "bond"} =>
                  has_option(Profile, "ethernet", "mtu")
            /\ TheIface["type"] = "infiniband" => has_option(Profile, "infiniband", "mtu")
            /\ log = IF mtu /= TheIface["mtu"] THEN << TheIface["name"] >> ELSE << >>

\* C5 witness: device mtu 1500, ipv4 subnet mtu 9000, mtu=9000 written, one warning.
C5_Witness ==
    /\ Rendered
    /\ TheIface["mtu"] = 1500
    /\ Ipv4Mtus(TheIface["subnets"]) = << 9000 >>
    /\ _get_config_option(Profile, "ethernet", "mtu") = "9000"
    /\ log = << "eth0" >>
    /\ raised = None


(***************************************************************************)
(* Properties of render_network_state on linked topologies (specification  *)
(* SpecRender).                                                            *)
(***************************************************************************)
IsBridge(iface) == iface["type"] = "bridge"

Names(iface, port) == IsBridge(iface) /\ InSeq(iface["bridge_ports"], port)

ProfileOf(conns, iface) == get_conn(conns, conn_key(iface))

Enslaved(port, bridge) ==
    /\ _get_config_option(port, "connection", "slave-type") = "bridge"
    /\ _get_config_option(port, "connection", "master") = con_uuid(bridge)

\* C6 as claimed: after render_network_state, the profile of every declared port P
\* of a bridge B has slave-type=bridge and master = B's token, whatever their order.
C6_PortEnslaved ==
    pc = "done" =>
        \A b, p \in 1..Len(Interfaces) :
            Names(Interfaces[b], conn_key(Interfaces[p])) =>
                Enslaved(ProfileOf(connections, Interfaces[p]),
                         ProfileOf(connections, Interfaces[b]))

\* C6 amended: after render_network_state, the profile of a declared port P that
\* declares no bond-master has slave-type=bridge and master = the token of B, the
\* first bridge of the interface sequence that names P, whether P precedes B or
\* B precedes P.
C6_PortEnslavedByFirstBridge ==
    pc = "done" =>
        \A b, p \in 1..Len(Interfaces) :
            ( /\ Names(Interfaces[b], conn_key(Interfaces[p]))
              /\ "bond-master" \notin DOMAIN Interfaces[p]
              /\ \A a \in 1..(b - 1) : ~Names(Interfaces[a], conn_key(Interfaces[p])) )
            => Enslaved(ProfileOf(connections, Interfaces[p]),
                        ProfileOf(connections, Interfaces[b]))

\* C6 witness: the bridge br0 precedes its port eth0, and eth0 is enslaved to it.
C6_Witness ==
    /\ pc = "done"
    /\ Len(Interfaces) >= 2
    /\ Interfaces[1]["name"] = "br0"
    /\ Names(Interfaces[1], "eth0")
    /\ conn_key(Interfaces[2]) = "eth0"
    /\ GetOption(get_conn(connections, "eth0"), "connection", "slave-type") = "bridge"
    /\ GetOption(get_conn(connections, "eth0"), "connection", "master") = uuid5("br0")

\* a reference of iface to an interface that has no profile in the registry
DanglingMaster(conns, iface) ==
    "bond-master" \in DOMAIN iface /\ ~HasConn(conns, iface["bond-master"])

DanglingParent(conns, iface) ==
    /\ iface["type"] = "vlan"
    /\ "vlan-raw-device" \in DOMAIN iface
    /\ ~HasConn(conns, iface["vlan-raw-device"])

DanglingPort(conns, iface) ==
    IsBridge(iface) /\ \E i \in 1..Len(iface["bridge_ports"]) :
                           ~HasConn(conns, iface["bridge_ports"][i])

\* C7 as claimed: no render_interface raises at an interface with a dangling
\* bond-master, vlan parent or bridge port reference, and a dangling bond-master
\* or vlan parent is written as the raw reference.
C7_DanglingNeverRaises ==
    /\ pc = "raised" =>
          ~( \/ DanglingMaster(connections, Interfaces[idx])
             \/ DanglingParent(connections, Interfaces[idx])
             \/ DanglingPort(connections, Interfaces[idx]) )
    /\ pc = "done" =>
          \A i \in 1..Len(Interfaces) :
              /\ (Mappable(Interfaces[i]) /\ DanglingMaster(connections, Interfaces[i])) =>
                    _get_config_option(ProfileOf(connections, Interfaces[i]),
                                       "connection", "master")
                        = Interfaces[i]["bond-master"]
              /\ DanglingParent(connections, Interfaces[i]) =>
                    _get_config_option(ProfileOf(connections, Interfaces[i]),
                                       "vlan", "parent")
                        = Interfaces[i]["vlan-raw-device"]

FileNames == { written[i].name : i \in 1..Len(written) }

\* C8 as claimed: render_interface never raises at an interface whose type has no
\* connection type, and after render_network_state no file is written for it.
C8_UnmappableSilentlyExcluded ==
    /\ pc = "raised" => Mappable(Interfaces[idx])
    /\ pc = "done" =>
          \A i \in 1..Len(Interfaces) :
              ~Mappable(Interfaces[i]) =>
                  /\ ~valid(ProfileOf(connections, Interfaces[i]))
                  /\ nm_conn_filename(conn_key(Interfaces[i])) \notin FileNames

Finished == pc \in {"done", "raised"}

\* C9: a Renderer that has finished a render of a topology and renders the same
\* topology again finishes the same way and writes the same files with the
\* same content in the same order.
C9_SameTopologySameFiles ==
    ( /\ Finished
      /\ renders >= 2
      /\ prev.network_state = network_state )
    => (pc = prev.pc /\ written = prev.written)

\* C9 witness: the second render of a topology of two profiles, one with a
\* static address, has written its three files.
C9_Witness ==
    /\ pc = "done"
    /\ renders = 2
    /\ prev.network_state = network_state
    /\ Len(written) = 3
    /\ \E i \in 1..Len(Interfaces) : Interfaces[i]["subnets"] = Static4

\* the registry once pass 1 of the current render is over
Pass1Done == pc \in {"pass2", "emit", "conf", "done", "raised"}

\* the profiles made for the interfaces of the current and of the previous render,
\* each with the registry key and the interface name it was made for
ProfilesMade ==
    { [key |-> conn_key(Interfaces[i]), name |-> Interfaces[i]["name"],
       uuid |-> con_uuid(ProfileOf(connections, Interfaces[i]))] :
        i \in 1..Len(Interfaces) }
    \cup
    { [key |-> conn_key(prev.network_state.interfaces[i]),
       name |-> prev.network_state.interfaces[i]["name"],
       uuid |-> con_uuid(ProfileOf(prev.connections, prev.network_state.interfaces[i]))] :
        i \in 1..Len(prev.network_state.interfaces) }

TypeSet(c) == has_option(c, "connection", "type")

\* C11: when render_network_state has emitted, a profile of the registry has its
\* file if and only if its connection.type is set, and the profile of a declared
\* interface has connection.type set if and only if the interface's type is
\* mappable; so a port that a bridge wrote into stays unwritten if its own type
\* is not mappable.
C11_WrittenIffTypeSet ==
    pc = "done" =>
        /\ \A k \in 1..Len(connections) :
              (nm_conn_filename(connections[k].key) \in FileNames)
                  <=> TypeSet(connections[k].conn)
        /\ \A i \in 1..Len(Interfaces) :
              TypeSet(ProfileOf(connections, Interfaces[i])) <=> Mappable(Interfaces[i])

\* C11 witness: the loopback lo is a declared port of the bridge br0, which wrote
\* slave-type and master into lo's profile; br0 has its file and lo has none.
C11_Witness ==
    /\ pc = "done"
    /\ \E b, p \in 1..Len(Interfaces) :
          /\ Interfaces[p]["type"] = "loopback"
          /\ Names(Interfaces[b], conn_key(Interfaces[p]))
          /\ has_option(ProfileOf(connections, Interfaces[p]), "connection", "master")
          /\ nm_conn_filename(conn_key(Interfaces[b])) \in FileNames
          /\ nm_conn_filename(conn_key(Interfaces[p])) \notin FileNames

ConfFile ==
    [name |-> cloud_init_nm_conf_filename, content |-> NM_IPV6_ADDR_GEN_CONF,
     mode |-> "0o600"]

\* the auxiliary file is the last file written, and is written once
ConfWrittenLast ==
    /\ written /= << >>
    /\ written[Len(written)] = ConfFile
    /\ \A i \in 1..(Len(written) - 1) : written[i].name /= cloud_init_nm_conf_filename

\* C12 as claimed: every run of render_network_state, however it ends and whatever
\* the number of valid profiles, has written the auxiliary file exactly once,
\* with the fixed content, after all profile files.
C12_ConfWrittenOncePerRun == Finished => ConfWrittenLast

\* a run that returns has written the auxiliary file once, last (the part of C12
\* that holds: a run fails it only by raising before the file is written)
ConfWrittenOnceOnReturn == pc = "done" => ConfWrittenLast

IfType(iface) == _type_map[iface["type"]]

\* C13: after render_interface of a mappable interface, connection.interface-name
\* is set (to the interface name) if and only if the connection type is bridge or
\* the type-specific section has no mac-address key; an ethernet interface with a
\* MAC address and one dhcp4 subnet gets type=ethernet, ipv4.method=auto,
\* ipv4.may-fail=false, the MAC in upper-case colon form and no interface-name.
C13_InterfaceNameIffNoMac ==
    (Rendered /\ Mappable(TheIface)) =>
        /\ has_option(Profile, "connection", "interface-name")
              <=> ( \/ IfType(TheIface) = "bridge"
                    \/ ~has_option(Profile, IfType(TheIface), "mac-address") )
        /\ has_option(Profile, "connection", "interface-name") =>
              GetOption(Profile, "connection", "interface-name") = TheIface["name"]
        /\ ( /\ TheIface["type"] = "physical"
             /\ TheIface["mac_address"] = Mac
             /\ TheIface["subnets"] = Dhcp4 )
           => /\ _get_config_option(Profile, "connection", "type") = "ethernet"
              /\ _get_config_option(Profile, "ipv4", "method") = "auto"
              /\ _get_config_option(Profile, "ipv4", "may-fail") = "false"
              /\ _get_config_option(Profile, "ethernet", "mac-address") = "AA:BB:01"
              /\ ~has_option(Profile, "connection", "interface-name")

\* C13 witness: an ethernet interface with a MAC address and one dhcp4 subnet is
\* rendered, with its MAC written and no interface-name.
C13_Witness ==
    /\ Rendered
    /\ TheIface["type"] = "physical"
    /\ TheIface["mac_address"] = Mac
    /\ TheIface["subnets"] = Dhcp4
    /\ has_option(Profile, "ethernet", "mac-address")
    /\ ~has_option(Profile, "connection", "interface-name")

\* C14: a rendered bond interface with zero subnets has ipv4.method=disabled and
\* ipv6.method=disabled in its profile; a rendered interface of any other
\* mappable type with zero subnets has neither an ipv4 nor an ipv6 section.
C14_BondWithoutSubnetsDisabled ==
    (Rendered /\ Mappable(TheIface) /\ TheIface["subnets"] = << >>) =>
        IF TheIface["type"] = "bond"
        THEN Method(Profile, "ipv4") = "disabled" /\ Method(Profile, "ipv6") = "disabled"
        ELSE ~has_section(Profile, "ipv4") /\ ~has_section(Profile, "ipv6")

\* C14 witness: a bond with zero subnets is rendered with both families disabled.
C14_Witness ==
    /\ Rendered
    /\ TheIface["type"] = "bond"
    /\ TheIface["subnets"] = << >>
    /\ GetOption(Profile, "ipv4", "method") = "disabled"
    /\ GetOption(Profile, "ipv6", "method") = "disabled"

(***************************************************************************)
(* More properties of one NMConnection (specification Spec).               *)
(***************************************************************************)
\* the last call was _set_ip_method with a subnet type method_map does not know
UnknownTypeCalled(op) == op.op = "_set_ip_method" /\ UnknownType(op.arg)

\* C15 as claimed: after _set_ip_method with an unrecognized subnet type the
\* family's method is "auto" and its may-fail is "true", whatever the family's
\* state was before the call.
C15_UnknownTypeGivesAuto ==
    UnknownTypeCalled(lastOp) =>
        /\ Method(conn, lastOp.family) = "auto"
        /\ MayFail(conn, lastOp.family) = "true"

\* C15 amended: _set_ip_method with an unrecognized subnet type forces the
\* family's may-fail to "true" whatever the family's state was before the call,
\* and leaves the method "auto", unless the method was "dhcp", which is kept.
C15_UnknownTypeGivesAutoUnlessDhcp ==
    [][UnknownTypeCalled(lastOp') =>
          /\ MayFail(conn', lastOp'.family) = "true"
          /\ Method(conn', lastOp'.family) =
                IF Method(conn, lastOp'.family) = "dhcp" THEN "dhcp" ELSE "auto"]_vars

\* C15 witness: an unrecognized subnet type was processed on a family whose method
\* is, and so already was, "dhcp"; its may-fail, "false" before, is now "true".
C15_Witness ==
    /\ UnknownTypeCalled(lastOp)
    /\ Method(conn, lastOp.family) = "dhcp"
    /\ MayFail(conn, lastOp.family) = "true"
    /\ ops = 2

(***************************************************************************)
(* More properties of render_interface on one interface (specification     *)
(* SpecIface).                                                             *)
(***************************************************************************)
\* a subnet of the family was processed / one of an unrecognized type was
Processed(iface, family) ==
    \E i \in 1..Len(iface["subnets"]) : SubnetFamily(iface["subnets"][i]) = family

UnknownProcessed(iface, family) ==
    \E i \in 1..Len(iface["subnets"]) :
        /\ SubnetFamily(iface["subnets"][i]) = family
        /\ UnknownType(iface["subnets"][i].type)

\* both families ended dynamic and neither had its may-fail forced to "true", so
\* both were "false" when _set_mayfail_true_if_both_false_dhcp was called
BothDynamicBothFalse(c, iface) ==
    \A family \in {"ipv4", "ipv6"} :
        Dynamic(c, family) /\ ~UnknownProcessed(iface, family)

\* C16: in the final profile of a rendered interface, a family's may-fail is
\* "true" only if an unrecognized subnet type was processed for the family, or
\* both families ended dynamic with may-fail "false" before the normalization;
\* otherwise a family with subnets, all of recognized types, has may-fail "false".
C16_MayFailTrueOnlyIf ==
    (Rendered /\ Mappable(TheIface)) =>
        \A family \in {"ipv4", "ipv6"} :
            /\ MayFail(Profile, family) = "true" =>
                  ( \/ UnknownProcessed(TheIface, family)
                    \/ BothDynamicBothFalse(Profile, TheIface) )
            /\ ( /\ Processed(TheIface, family)
                 /\ ~UnknownProcessed(TheIface, family)
                 /\ ~BothDynamicBothFalse(Profile, TheIface) )
               => MayFail(Profile, family) = "false"

\* C16 witness: ipv4 had a subnet of an unrecognized type and ends dynamic with
\* may-fail "true"; ipv6, dynamic from a recognized type, keeps may-fail "false".
C16_Witness ==
    /\ Rendered
    /\ UnknownProcessed(TheIface, "ipv4")
    /\ Processed(TheIface, "ipv6")
    /\ Dynamic(Profile, "ipv4") /\ Dynamic(Profile, "ipv6")
    /\ MayFail(Profile, "ipv4") = "true"
    /\ MayFail(Profile, "ipv6") = "false"

(***************************************************************************)
(* More properties of render_network_state on linked topologies            *)
(* (specification SpecRender).                                             *)
(***************************************************************************)
\* the key/value contents of a profile, whatever the order of its sections and keys
Contents(c) ==
    UNION { { << c[i].name, c[i].opts[j].k, c[i].opts[j].v >> :
                j \in 1..Len(c[i].opts) } : i \in 1..Len(c) }

\* the same interfaces in the opposite order
IsReversed(is, js) ==
    Len(is) = Len(js) /\ \A i \in 1..Len(is) : js[i] = is[Len(is) + 1 - i]

\* C17 as claimed: two renders of the same interfaces in different orders, both
\* returning, leave every profile with the same key/value contents, also when a
\* port is named by more than one bridge or declares a bond-master as well.
C17_OrderIndependent ==
    ( /\ pc = "done"
      /\ prev.pc = "done"
      /\ IsReversed(prev.network_state.interfaces, Interfaces) )
    => \A i \in 1..Len(Interfaces) :
           Contents(ProfileOf(connections, Interfaces[i]))
               = Contents(ProfileOf(prev.connections, Interfaces[i]))

\* a port of the topology that more than one of its bridges names
SharedPort(is) ==
    \E a, b, p \in 1..Len(is) :
        a /= b /\ Names(is[a], conn_key(is[p])) /\ Names(is[b], conn_key(is[p]))

\* the part of C17 that holds: the contents are the same in both orders if no
\* port is named by more than one bridge
OrderIndependentUnlessShared ==
    ( /\ pc = "done"
      /\ prev.pc = "done"
      /\ IsReversed(prev.network_state.interfaces, Interfaces)
      /\ ~SharedPort(Interfaces) )
    => \A i \in 1..Len(Interfaces) :
           Contents(ProfileOf(connections, Interfaces[i]))
               = Contents(ProfileOf(prev.connections, Interfaces[i]))

\* render_interface has returned for the i-th interface of the current render
RenderedAt(i) ==
    \/ pc \in {"emit", "conf", "done"}
    \/ pc \in {"pass2", "raised"} /\ i < idx

MasterRef(iface) == "bond-master" \in DOMAIN iface

ParentRef(iface) == iface["type"] = "vlan" /\ "vlan-raw-device" \in DOMAIN iface

\* no render_interface runs before pass 1 is over: while pass 1 runs the profiles
\* it has made are as constructed, and pass 2 starts with a profile for every
\* interface
Pass1BeforePass2 ==
    /\ pc = "pass1" =>
          \A i \in 1..(idx - 1) :
              ProfileOf(connections, Interfaces[i]) = NMConnection(Interfaces[i]["name"])
    /\ pc = "pass2" =>
          \A i \in 1..Len(Interfaces) : HasConn(connections, conn_key(Interfaces[i]))

\* the references of the rendered interfaces to the interfaces, the j-th being
\* referred to as target[j], are written as the token of the interface referred to
ResolvedBy(target) ==
    \A i, j \in 1..Len(Interfaces) :
        (RenderedAt(i) /\ Mappable(Interfaces[i])) =>
            /\ (MasterRef(Interfaces[i])
                  /\ Interfaces[i]["bond-master"] = target[j])
               => _get_config_option(ProfileOf(connections, Interfaces[i]),
                                     "connection", "master")
                      = con_uuid(ProfileOf(connections, Interfaces[j]))
            /\ (ParentRef(Interfaces[i])
                  /\ Interfaces[i]["vlan-raw-device"] = target[j])
               => _get_config_option(ProfileOf(connections, Interfaces[i]),
                                     "vlan", "parent")
                      = con_uuid(ProfileOf(connections, Interfaces[j]))

Declared == 1..Len(Interfaces)

MtuSections == {"ethernet", "bond", "bridge", "vlan", "infiniband"}

\* C19: when ipv4 subnets of the interface carry an mtu, every mtu key written
\* holds the mtu of the first such subnet in input order; the mtu of a later ipv4
\* subnet and the mtu of an ipv6 subnet do not change it.
C19_FirstIpv4MtuUsed ==
    (Rendered /\ Mappable(TheIface) /\ Ipv4Mtus(TheIface["subnets"]) /= << >>) =>
        \A section \in MtuSections :
            has_option(Profile, section, "mtu") =>
                GetOption(Profile, section, "mtu")
                    = ToString(Head(Ipv4Mtus(TheIface["subnets"])))

\* the part of C19 about ipv6 subnets: the mtu keys written are those of the
\* interface with the mtu of its ipv6 subnets taken away
Ipv6MtuUnused ==
    (Rendered /\ Mappable(TheIface)) =>
        \A section \in MtuSections :
            has_option(Profile, section, "mtu") =>
                GetOption(Profile, section, "mtu")
                    = ToString(ResolveMtu(
                          IF Ipv4Mtus(TheIface["subnets"]) = << >> THEN NoneInt
                          ELSE LastOf(Ipv4Mtus(TheIface["subnets"])),
                          TheIface["mtu"]))


IsInfiniband(iface) == iface["type"] = "infiniband"

TransportAndMac ==
    /\ _get_config_option(Profile, "infiniband", "transport-mode") = "datagram"
    /\ TheIface["mac_address"] /= << >> =>
          _get_config_option(Profile, "infiniband", "mac-address")
              = mac_addr(TheIface["mac_address"])

\* C20: every rendered infiniband profile has infiniband.transport-mode=datagram,
\* and infiniband.mac-address is the normalized MAC whenever the interface has a
\* MAC address, whether or not a device-level or subnet-level mtu is defined.
C20_InfinibandTransportAndMac ==
    (Rendered /\ IsInfiniband(TheIface)) => TransportAndMac

\* what holds of C20: the transport mode and the MAC are written when an mtu is
\* defined, and neither is written when none is
InfinibandOnlyWithMtu ==
    (Rendered /\ IsInfiniband(TheIface)) =>
        IF TheIface["mtu"] /= NoneInt \/ Ipv4Mtus(TheIface["subnets"]) /= << >>
        THEN TransportAndMac
        ELSE /\ ~has_option(Profile, "infiniband", "transport-mode")
             /\ ~has_option(Profile, "infiniband", "mac-address")


(***************************************************************************)
(* DNS and method keys of the final profile of one interface               *)
(* (specification SpecIface).                                              *)
(***************************************************************************)
RECURSIVE SubnetSearch(_)
SubnetSearch(subnets) ==
    IF subnets = << >> THEN << >>
    ELSE (IF "dns_search" \in DOMAIN subnets[1] THEN subnets[1].dns_search ELSE << >>)
         \o SubnetSearch(Tail(subnets))

\* the entries of list that are not in seen, in their order
NotIn(seen, list) == SelectSeq(list, LAMBDA d : \A i \in 1..Len(seen) : seen[i] /= d)

OwnDns(iface, field) == IF "dns" \in DOMAIN iface THEN iface["dns"][field] ELSE << >>

\* what the subnets and the interface give, subnet level first
CollectedNameservers(iface) ==
    SubnetNameservers(iface["subnets"])
        \o NotIn(SubnetNameservers(iface["subnets"]), OwnDns(iface, "nameservers"))

CollectedSearch(iface) ==
    SubnetSearch(iface["subnets"])
        \o NotIn(SubnetSearch(iface["subnets"]), OwnDns(iface, "search"))

Enabled(c, family) == has_section(c, family) /\ Method(c, family) /= "disabled"

\* C21: in the final profile a family whose method is disabled has no dns and no
\* dns-search key, a dns key holds nameservers of its own address family only (in
\* the order found), and the search domains found are written to every family
\* whose section exists and is not disabled.
C21_DnsOnEnabledFamilies ==
    (Rendered /\ Mappable(TheIface)) =>
        \A family \in {"ipv4", "ipv6"} :
            /\ Method(Profile, family) = "disabled" =>
                  /\ ~has_option(Profile, family, "dns")
                  /\ ~has_option(Profile, family, "dns-search")
            /\ has_option(Profile, family, "dns") =>
                  \E found \in {CollectedNameservers(TheIface),
                                network_state.dns_nameservers} :
                      GetOption(Profile, family, "dns") = DnsText(found, family)
            /\ \E found \in {CollectedSearch(TheIface), network_state.dns_searchdomains} :
                  IF Enabled(Profile, family) /\ found /= << >>
                  THEN _get_config_option(Profile, family, "dns-search")
                           = Join(";", found) \o ";"
                  ELSE ~has_option(Profile, family, "dns-search")

\* C21 witness: ipv6_slaac with an ipv4 and an ipv6 nameserver and search domains
\* from the interface: ipv4 is disabled and has no DNS key, ipv6 has its own
\* nameserver and the search domains.
C21_Witness ==
    /\ Rendered
    /\ Method(Profile, "ipv4") = "disabled"
    /\ CollectedNameservers(TheIface) = << "9.9.9.9", "fd00::53", "1.1.1.1", "fd00::1" >>
    /\ GetOption(Profile, "ipv6", "dns") = "fd00::53;fd00::1;"
    /\ GetOption(Profile, "ipv6", "dns-search") = "b.test;c.test;"
    /\ ~has_option(Profile, "ipv4", "dns")


\* the dns-search keys of profile c hold exactly these search domains
SearchWritten(c, search) ==
    \A family \in {"ipv4", "ipv6"} :
        IF Enabled(c, family) /\ search /= << >>
        THEN _get_config_option(c, family, "dns-search") = Join(";", search) \o ";"
        ELSE ~has_option(c, family, "dns-search")

OrElse(collected, global) == IF collected = << >> THEN global ELSE collected

NothingCollected(iface) ==
    CollectedNameservers(iface) = << >> /\ CollectedSearch(iface) = << >>

GlobalPerList ==
    (Rendered /\ Mappable(TheIface)) =>
        /\ DnsWritten(Profile, OrElse(CollectedNameservers(TheIface),
                                      network_state.dns_nameservers))
        /\ SearchWritten(Profile, OrElse(CollectedSearch(TheIface),
                                         network_state.dns_searchdomains))

\* a step of rendering leaves the topology, the global lists included, as it is
GlobalsKept == renders = 1 => network_state' = network_state

Methods == {"disabled", "manual", "auto", "dhcp"}

\* C23: in the final profile every ipv4/ipv6 section that exists has a method key
\* with a value in {disabled, manual, auto, dhcp}; so a family that holds a
\* route, a nameserver or a search domain has a resolved method.
C23_SectionHasMethod ==
    (Rendered /\ Mappable(TheIface)) =>
        \A family \in {"ipv4", "ipv6"} :
            has_section(Profile, family) => Method(Profile, family) \in Methods

HasSubnetOf(iface, family) ==
    \E i \in 1..Len(iface["subnets"]) : SubnetFamily(iface["subnets"][i]) = family

\* what holds of C23: a family for which a subnet was processed has a method, and
\* a section without a method is one that a route made
MethodUnlessRouteOnly ==
    (Rendered /\ Mappable(TheIface)) =>
        \A family \in {"ipv4", "ipv6"} :
            /\ HasSubnetOf(TheIface, family) => Method(Profile, family) \in Methods
            /\ (has_section(Profile, family) /\ Method(Profile, family) \notin Methods) =>
                  /\ has_option(Profile, family, "route1")
                  /\ ~has_option(Profile, family, "method")


(***************************************************************************)
(* The registry after pass 1 (specification SpecRender).                   *)
(***************************************************************************)
RegistryKeys == { connections[i].key : i \in 1..Len(connections) }

DeclaredKeys == { conn_key(Interfaces[i]) : i \in 1..Len(Interfaces) }

\* the registry holds one profile for each key of the topology and no other, and
\* no two of its profiles have the same token
OnePerKeyDistinctTokens ==
    /\ RegistryKeys = DeclaredKeys
    /\ \A i, j \in 1..Len(connections) :
          i /= j => /\ connections[i].key /= connections[j].key
                    /\ con_uuid(connections[i].conn) /= con_uuid(connections[j].conn)

\* C24: once pass 1 is over the registry holds exactly one profile per distinct
\* connection key, and two profiles held under different keys have different
\* tokens, so that a token identifies one emitted profile, also when a connection
\* id differs from the interface name.
C24_OneProfilePerKeyDistinctTokens == Pass1Done => OnePerKeyDistinctTokens

\* what holds of C24: the same for the first render of a Renderer
FirstRenderDistinctTokens == (renders = 1 /\ Pass1Done) => OnePerKeyDistinctTokens

\* on a later render every key of the topology still has its one profile
DeclaredKeysHeld ==
    Pass1Done =>
        /\ DeclaredKeys \subseteq RegistryKeys
        /\ \A i, j \in 1..Len(connections) :
              i /= j => connections[i].key /= connections[j].key

=============================================================================
